---------------------------- MODULE Spec2Model ----------------------------
(***************************************************************************)
(* Jenkins Docker Manager (python/jenkins_manager.py) and its CASC         *)
(* renderer (jenkins/generate_casc.py) as state machines.                  *)
(*                                                                         *)
(*   Spec          main() and create_jenkins_system(), with                *)
(*                 get_service_names() and setup_ssh_key() in full         *)
(*   SpecCleanup   cleanup(), one step per Docker API call                 *)
(*   SpecDiscover  collect_agents_and_generate_casc() and the renderer     *)
(*                 sub-process it starts                                   *)
(*                                                                         *)
(* A string that the code searches with Python's "in" is a sequence of     *)
(* tokens ("jenkins-agent" is <<"jenkins", "agent">>), and "in" is a       *)
(* search for a contiguous sub-sequence.                                   *)
(***************************************************************************)
EXTENDS Integers, Sequences, FiniteSets, TLC

VARIABLES
    pc,                       \* position of the running function
    exit_status,              \* "running", or the process's exit status 0 / 1
    raised,                   \* "none", or the function that raised / called sys.exit(1)
    args,                     \* argparse result: num_agents, clean; and compose_file.exists()
    services,                 \* keys of compose['services'], in declaration order
    uv_installed,             \* shutil.which("uv") is not None
    keygen_output,            \* what ssh-keygen writes when it succeeds
    stages,                   \* functions main/create_jenkins_system have called, in order
    agent_service_name,
    controller_service_name,
    tmp_key_dir,              \* the TemporaryDirectory exists on the filesystem
    key_files,                \* file name -> content, inside tmp_key_dir
    jenkins_ssh_private_key,
    jenkins_agent_ssh_pubkey,
    environ,                  \* os.environ entries the program has set
    inventory,                \* resources the Docker daemon holds when cleanup starts
    stopped,                  \* containers a stop() has stopped
    removed,                  \* <<kind, id>> of resources a remove has removed
    todo,                     \* rest of the list the current for-loop iterates
    ops,                      \* Docker API calls cleanup has made: <<op, id, ok>>
    all_containers,           \* client.containers.list(all=True): names, in order
    agent_containers,
    idx,                      \* index of the container being polled
    attempt,                  \* loop variable "_" of range(20), 0-based
    polls,                    \* reload() calls made on the container being polled
    sleeps,                   \* time.sleep(2) calls made for the container being polled
    status,                   \* container.status as of the last reload()
    attrs,                    \* NetworkSettings.Networks as last read (line 135)
    agent_names,
    agent_ips,
    argv,                     \* sys.argv[1:] of the renderer sub-process
    casc_agents,              \* "agents" handed to template.render
    casc_reported             \* num_agents printed by the renderer

mainVars ==
    <<args, services, uv_installed, keygen_output, stages, controller_service_name,
      tmp_key_dir, key_files, jenkins_ssh_private_key, jenkins_agent_ssh_pubkey, environ>>

cleanupVars == <<inventory, stopped, removed, todo, ops>>

discoverVars ==
    <<all_containers, agent_containers, idx, attempt, polls, sleeps, status, attrs,
      agent_names, agent_ips, argv, casc_agents, casc_reported>>

vars == <<pc, exit_status, raised, agent_service_name, mainVars, cleanupVars, discoverVars>>

-----------------------------------------------------------------------------
(* Bounds of the model *)

MaxServices == 3
MaxAgents == 2

-----------------------------------------------------------------------------
(* Strings *)

\* Python's None where a string is expected, and the empty string ''.
None == <<"None">>
EmptyStr == << >>

\* Python's truth value of a string or None.
Truthy(x) == x # None /\ x # EmptyStr

\* Python: sub in s
Contains(sub, s) ==
    \E i \in 0..(Len(s) - Len(sub)) : SubSeq(s, i + 1, i + Len(sub)) = sub

AGENT == <<"agent">>
CONTROLLER == <<"controller">>
JENKINS == <<"jenkins">>

\* Service names a compose file may declare.
ServicePool ==
    { <<"jenkins">>, <<"jenkins", "agent">>, <<"jenkins", "controller">>,
      <<"agent">>, <<"controller", "agent">>, <<"db">> }

Range(s) == { s[i] : i \in DOMAIN s }

\* Sequences over S without repetition, of length at most n.
DistinctSeqs(S, n) ==
    UNION { { s \in [1..k -> S] : \A i, j \in 1..k : i # j => s[i] # s[j] } : k \in 0..n }

-----------------------------------------------------------------------------
(* get_service_names *)

\* The loop with first-match-wins assignments (as if each rule stopped at its
\* first hit).
RECURSIVE ServiceLoopFirst(_, _, _, _)
ServiceLoopFirst(svcs, i, a, c) ==
    IF i > Len(svcs) THEN <<a, c>>
    ELSE LET service == svcs[i]
             a2 == IF a = None /\ Contains(AGENT, service) THEN service ELSE a
             c2 == IF c = None /\ (service = JENKINS \/ Contains(CONTROLLER, service))
                   THEN service ELSE c
         IN  ServiceLoopFirst(svcs, i + 1, a2, c2)

\* The for-loop of get_service_names from index i on, with the two locals a, c.
RECURSIVE ServiceLoop(_, _, _, _)
ServiceLoop(svcs, i, a, c) ==
    IF i > Len(svcs) THEN <<a, c>>
    ELSE LET service == svcs[i]
             a2 == IF Contains(AGENT, service) THEN service ELSE a
             c2 == IF service = JENKINS \/ Contains(CONTROLLER, service) THEN service ELSE c
         IN  ServiceLoop(svcs, i + 1, a2, c2)

-----------------------------------------------------------------------------
(* main, create_jenkins_system, setup_ssh_key *)

KeyMaterial == [private : {"privA", "privB"}, public : {"pubA", "pubB"}]
NoFiles == [f \in {} |-> ""]
NoEnv == [v \in {} |-> ""]
Unbound == "unbound"

IdleCleanup ==
    /\ inventory = [containers |-> 0, running |-> {}, images |-> 0, volumes |-> 0,
                    networks |-> << >>]
    /\ stopped = {}
    /\ removed = {}
    /\ todo = << >>
    /\ ops = << >>

IdleDiscover ==
    /\ all_containers = << >>
    /\ agent_containers = << >>
    /\ idx = 0
    /\ attempt = 0
    /\ polls = 0
    /\ sleeps = 0
    /\ status = "created"
    /\ attrs = << >>
    /\ agent_names = << >>
    /\ agent_ips = << >>
    /\ argv = << >>
    /\ casc_agents = << >>
    /\ casc_reported = -1

IdleMain ==
    /\ args = [num_agents |-> 0, clean |-> FALSE, compose_exists |-> FALSE]
    /\ services = << >>
    /\ uv_installed = TRUE
    /\ keygen_output = [private |-> "privA", public |-> "pubA"]
    /\ stages = << >>
    /\ controller_service_name = None
    /\ tmp_key_dir = FALSE
    /\ key_files = NoFiles
    /\ jenkins_ssh_private_key = Unbound
    /\ jenkins_agent_ssh_pubkey = Unbound
    /\ environ = NoEnv

Init ==
    /\ pc = "main"
    /\ exit_status = "running"
    /\ raised = "none"
    /\ args \in [num_agents : (-1)..MaxAgents, clean : BOOLEAN, compose_exists : BOOLEAN]
    /\ services \in DistinctSeqs(ServicePool, MaxServices)
    /\ uv_installed \in BOOLEAN
    /\ keygen_output \in KeyMaterial
    /\ stages = << >>
    /\ agent_service_name = None
    /\ controller_service_name = None
    /\ tmp_key_dir = FALSE
    /\ key_files = NoFiles
    /\ jenkins_ssh_private_key = Unbound
    /\ jenkins_agent_ssh_pubkey = Unbound
    /\ environ = NoEnv
    /\ IdleCleanup
    /\ IdleDiscover

\* main returns: the process ends with status 0.
Return ==
    /\ pc' = "exited"
    /\ exit_status' = 0
    /\ UNCHANGED raised

\* sys.exit(1) in function f, or an exception raised in f that nobody catches:
\* the process ends with status 1.
Fail(f) ==
    /\ pc' = "exited"
    /\ exit_status' = 1
    /\ raised' = f

Continue(next) ==
    /\ pc' = next
    /\ UNCHANGED <<exit_status, raised>>

Call(stage) == stages' = Append(stages, stage)

\* main with the cleanup gate ahead of the zero-agent test.
MainCleanupFirst ==
    /\ pc = "main"
    /\ IF args.clean
       THEN \E ok \in BOOLEAN :
               /\ Call("cleanup")
               /\ IF ok THEN Continue("compose_file_exists") ELSE Fail("cleanup")
       ELSE Return /\ UNCHANGED stages
    /\ UNCHANGED <<args, services, uv_installed, keygen_output, agent_service_name,
                   controller_service_name, tmp_key_dir, key_files,
                   jenkins_ssh_private_key, jenkins_agent_ssh_pubkey, environ>>
    /\ UNCHANGED <<cleanupVars, discoverVars>>

\* main, lines 241-254, up to and including the call of cleanup(). The lists
\* cleanup iterates are fetched outside its try blocks, so cleanup can raise.
Main ==
    /\ pc = "main"
    /\ IF args.num_agents = 0
       THEN Return /\ UNCHANGED stages
       ELSE IF args.clean
            THEN \E ok \in BOOLEAN :
                    /\ Call("cleanup")
                    /\ IF ok THEN Continue("compose_file_exists") ELSE Fail("cleanup")
            ELSE Return /\ UNCHANGED stages
    /\ UNCHANGED <<args, services, uv_installed, keygen_output, agent_service_name,
                   controller_service_name, tmp_key_dir, key_files,
                   jenkins_ssh_private_key, jenkins_agent_ssh_pubkey, environ>>
    /\ UNCHANGED <<cleanupVars, discoverVars>>

\* main without the test of compose_file.exists().
ComposeFileNotChecked ==
    /\ pc = "compose_file_exists"
    /\ Continue("check_uv")
    /\ UNCHANGED <<agent_service_name, mainVars, cleanupVars, discoverVars>>

\* main, lines 248-252.
ComposeFileExists ==
    /\ pc = "compose_file_exists"
    /\ IF args.compose_exists THEN Continue("check_uv") ELSE Fail("main")
    /\ UNCHANGED <<agent_service_name, mainVars, cleanupVars, discoverVars>>

CheckUv ==
    /\ pc = "check_uv"
    /\ Call("check_uv")
    /\ IF uv_installed THEN Continue("get_service_names") ELSE Fail("check_uv")
    /\ UNCHANGED <<args, services, uv_installed, keygen_output, agent_service_name,
                   controller_service_name, tmp_key_dir, key_files,
                   jenkins_ssh_private_key, jenkins_agent_ssh_pubkey, environ>>
    /\ UNCHANGED <<cleanupVars, discoverVars>>

GetServiceNames ==
    /\ pc = "get_service_names"
    /\ Call("get_service_names")
    /\ LET r == ServiceLoop(services, 1, None, None)
       IN  /\ agent_service_name' = r[1]
           /\ controller_service_name' = r[2]
           /\ IF ~Truthy(r[1]) \/ ~Truthy(r[2])
              THEN Fail("get_service_names")
              ELSE Continue("setup_ssh_key")
    /\ UNCHANGED <<args, services, uv_installed, keygen_output, tmp_key_dir, key_files,
                   jenkins_ssh_private_key, jenkins_agent_ssh_pubkey, environ>>
    /\ UNCHANGED <<cleanupVars, discoverVars>>

\* setup_ssh_key, line 93: TemporaryDirectory.__enter__
SshEnterTmpDir ==
    /\ pc = "setup_ssh_key"
    /\ Call("setup_ssh_key")
    /\ tmp_key_dir' = TRUE
    /\ Continue("ssh_keygen")
    /\ UNCHANGED <<args, services, uv_installed, keygen_output,
                   agent_service_name, controller_service_name, key_files,
                   jenkins_ssh_private_key, jenkins_agent_ssh_pubkey, environ>>
    /\ UNCHANGED <<cleanupVars, discoverVars>>

\* An exception raised inside the with block: control goes to the block's exit.
RaiseInWith ==
    /\ pc' = "ssh_exit"
    /\ raised' = "setup_ssh_key"
    /\ UNCHANGED exit_status

\* setup_ssh_key, lines 95-100: subprocess.run(ssh-keygen, check=True)
SshKeygen ==
    /\ pc = "ssh_keygen"
    /\ \E ok \in BOOLEAN :
          IF ok
          THEN /\ key_files' = [f \in {"id_ed25519", "id_ed25519.pub"} |->
                                   IF f = "id_ed25519" THEN keygen_output.private
                                                       ELSE keygen_output.public]
               /\ Continue("ssh_read_private")
          ELSE /\ key_files' = key_files
               /\ RaiseInWith
    /\ UNCHANGED <<args, services, uv_installed, keygen_output, stages,
                   agent_service_name, controller_service_name, tmp_key_dir,
                   jenkins_ssh_private_key, jenkins_agent_ssh_pubkey, environ>>
    /\ UNCHANGED <<cleanupVars, discoverVars>>

\* setup_ssh_key, lines 101-102
SshReadPrivate ==
    /\ pc = "ssh_read_private"
    /\ \E ok \in BOOLEAN :
          IF ok
          THEN /\ jenkins_ssh_private_key' = key_files["id_ed25519"]
               /\ Continue("ssh_read_public")
          ELSE /\ jenkins_ssh_private_key' = jenkins_ssh_private_key
               /\ RaiseInWith
    /\ UNCHANGED <<args, services, uv_installed, keygen_output, stages,
                   agent_service_name, controller_service_name, tmp_key_dir, key_files,
                   jenkins_agent_ssh_pubkey, environ>>
    /\ UNCHANGED <<cleanupVars, discoverVars>>

\* setup_ssh_key, lines 103-104
SshReadPublic ==
    /\ pc = "ssh_read_public"
    /\ \E ok \in BOOLEAN :
          IF ok
          THEN /\ jenkins_agent_ssh_pubkey' = key_files["id_ed25519.pub"]
               /\ Continue("ssh_exit")
          ELSE /\ jenkins_agent_ssh_pubkey' = jenkins_agent_ssh_pubkey
               /\ RaiseInWith
    /\ UNCHANGED <<args, services, uv_installed, keygen_output, stages,
                   agent_service_name, controller_service_name, tmp_key_dir, key_files,
                   jenkins_ssh_private_key, environ>>
    /\ UNCHANGED <<cleanupVars, discoverVars>>

\* A directory made with mkdtemp and removed only on the normal path.
SshExitTmpDirLeak ==
    /\ pc = "ssh_exit"
    /\ IF raised # "none"
       THEN Fail(raised) /\ UNCHANGED <<tmp_key_dir, key_files>>
       ELSE Continue("set_environ") /\ tmp_key_dir' = FALSE /\ key_files' = NoFiles
    /\ UNCHANGED <<args, services, uv_installed, keygen_output, stages,
                   agent_service_name, controller_service_name,
                   jenkins_ssh_private_key, jenkins_agent_ssh_pubkey, environ>>
    /\ UNCHANGED <<cleanupVars, discoverVars>>

\* TemporaryDirectory.__exit__ at the end of the with block (line 93), reached
\* by falling off the block or by an exception raised inside it; the exception
\* then leaves setup_ssh_key, create_jenkins_system and main.
SshExitTmpDir ==
    /\ pc = "ssh_exit"
    /\ tmp_key_dir' = FALSE
    /\ key_files' = NoFiles
    /\ IF raised # "none" THEN Fail(raised) ELSE Continue("set_environ")
    /\ UNCHANGED <<args, services, uv_installed, keygen_output, stages,
                   agent_service_name, controller_service_name,
                   jenkins_ssh_private_key, jenkins_agent_ssh_pubkey, environ>>
    /\ UNCHANGED <<cleanupVars, discoverVars>>

\* create_jenkins_system, lines 210-212: the return of setup_ssh_key and the
\* two os.environ assignments.
SetEnviron ==
    /\ pc = "set_environ"
    /\ environ' = [v \in {"JENKINS_SSH_PRIVATE_KEY", "JENKINS_AGENT_SSH_PUBKEY"} |->
                      IF v = "JENKINS_SSH_PRIVATE_KEY" THEN jenkins_ssh_private_key
                                                       ELSE jenkins_agent_ssh_pubkey]
    /\ Continue("setup_jenkins_agents")
    /\ UNCHANGED <<args, services, uv_installed, keygen_output, stages,
                   agent_service_name, controller_service_name, tmp_key_dir, key_files,
                   jenkins_ssh_private_key, jenkins_agent_ssh_pubkey>>
    /\ UNCHANGED <<cleanupVars, discoverVars>>

\* A stage whose failure is caught and logged, and the pipeline goes on.
RunStageBestEffort(stage, next) ==
    /\ pc = stage
    /\ Call(stage)
    /\ \E ok \in BOOLEAN :
          IF ok THEN Continue(next)
                ELSE pc' = next /\ raised' = stage /\ UNCHANGED exit_status
    /\ UNCHANGED <<args, services, uv_installed, keygen_output, agent_service_name,
                   controller_service_name, tmp_key_dir, key_files,
                   jenkins_ssh_private_key, jenkins_agent_ssh_pubkey, environ>>
    /\ UNCHANGED <<cleanupVars, discoverVars>>

\* A stage whose external command runs with check=True: the stage returns, or
\* CalledProcessError leaves it, create_jenkins_system and main.
RunStage(stage, next) ==
    /\ pc = stage
    /\ Call(stage)
    /\ \E ok \in BOOLEAN : IF ok THEN Continue(next) ELSE Fail(stage)
    /\ UNCHANGED <<args, services, uv_installed, keygen_output, agent_service_name,
                   controller_service_name, tmp_key_dir, key_files,
                   jenkins_ssh_private_key, jenkins_agent_ssh_pubkey, environ>>
    /\ UNCHANGED <<cleanupVars, discoverVars>>

\* The controller launched right after the agents, the discovery left out.
SetupJenkinsAgentsThenController ==
    RunStage("setup_jenkins_agents", "setup_jenkins_controller")

\* create_jenkins_system, line 214
SetupJenkinsAgents ==
    RunStage("setup_jenkins_agents", "collect_agents_and_generate_casc")

\* create_jenkins_system, line 215
CollectAgentsAndGenerateCasc ==
    RunStage("collect_agents_and_generate_casc", "setup_jenkins_controller")

\* create_jenkins_system, line 216
SetupJenkinsController ==
    RunStage("setup_jenkins_controller", "get_jenkins_url_from_env")

\* create_jenkins_system, lines 218-220, and the return from main.
GetJenkinsUrlFromEnv ==
    /\ pc = "get_jenkins_url_from_env"
    /\ Call("get_jenkins_url_from_env")
    /\ Return
    /\ UNCHANGED <<args, services, uv_installed, keygen_output, agent_service_name,
                   controller_service_name, tmp_key_dir, key_files,
                   jenkins_ssh_private_key, jenkins_agent_ssh_pubkey, environ>>
    /\ UNCHANGED <<cleanupVars, discoverVars>>

Next ==
    \/ Main
    \/ ComposeFileExists
    \/ CheckUv
    \/ GetServiceNames
    \/ SshEnterTmpDir
    \/ SshKeygen
    \/ SshReadPrivate
    \/ SshReadPublic
    \/ SshExitTmpDir
    \/ SetEnviron
    \/ SetupJenkinsAgents
    \/ CollectAgentsAndGenerateCasc
    \/ SetupJenkinsController
    \/ GetJenkinsUrlFromEnv

Spec == Init /\ [][Next]_vars

-----------------------------------------------------------------------------
(* cleanup *)

MaxContainers == 2
MaxImages == 1

\* Names of the resources the daemon may hold; an inventory holds the first few
\* containers and images, and any number of the volumes and user networks.
ContainerPool == <<"container1", "container2", "container3", "container4">>
ImagePool == <<"image1", "image2", "image3">>
VolumePool == <<"volume1">>
UserNetworkPool == <<"jenkins_net">>

\* line 73
ReservedNetworks == {"bridge", "host", "none"}

\* What the daemon holds: every list in the order the daemon enumerates it. The
\* three networks Docker creates itself are always there.
Inventories ==
    { [containers |-> SubSeq(ContainerPool, 1, c), running |-> r,
       images |-> SubSeq(ImagePool, 1, i), volumes |-> SubSeq(VolumePool, 1, v),
       networks |-> <<"bridge">> \o SubSeq(UserNetworkPool, 1, n) \o <<"host", "none">>] :
      <<c, r, i, v, n>> \in
         { t \in (0..MaxContainers) \X (SUBSET Range(ContainerPool)) \X (0..MaxImages)
                   \X (0..Len(VolumePool)) \X (0..Len(UserNetworkPool)) :
             t[2] \subseteq Range(SubSeq(ContainerPool, 1, t[1])) } }

InitCleanup ==
    /\ pc = "cleanup"
    /\ exit_status = "running"
    /\ raised = "none"
    /\ agent_service_name = None
    /\ IdleMain
    /\ IdleDiscover
    /\ inventory \in Inventories
    /\ stopped = {}
    /\ removed = {}
    /\ todo = << >>
    /\ ops = << >>

Op(op, target, ok) == [op |-> op, target |-> target, ok |-> ok]

Existing(kind, list) == SelectSeq(list, LAMBDA x : <<kind, x>> \notin removed)

IsRunning(c) == c \in inventory.running /\ c \notin stopped

\* The list a for statement iterates is fetched once, outside any try: an error
\* of that call leaves cleanup; otherwise the loop starts on the list.
StartLoop(at, op, list, loop) ==
    /\ pc = at
    /\ todo = << >>
    /\ \E ok \in BOOLEAN :
          /\ ops' = Append(ops, Op(op, "", ok))
          /\ IF ok THEN todo' = list /\ Continue(loop)
                   ELSE todo' = todo /\ Fail("cleanup")
    /\ UNCHANGED <<inventory, stopped, removed>>
    /\ UNCHANGED <<agent_service_name, mainVars, discoverVars>>

\* line 38
ListRunningContainers ==
    StartLoop("cleanup", "list_running",
              SelectSeq(Existing("container", inventory.containers), IsRunning), "stop_loop")

\* lines 39-42
StopContainer ==
    /\ pc = "stop_loop"
    /\ todo # << >>
    /\ \E ok \in BOOLEAN :
          /\ ops' = Append(ops, Op("stop", Head(todo), ok))
          /\ stopped' = IF ok THEN stopped \cup {Head(todo)} ELSE stopped
    /\ todo' = Tail(todo)
    /\ UNCHANGED <<pc, exit_status, raised, inventory, removed>>
    /\ UNCHANGED <<agent_service_name, mainVars, discoverVars>>

\* One pass of a removal loop: the call, and the except clause that logs a
\* warning when the call raises docker.errors.APIError.
TryRemove(loop, op, kind) ==
    /\ pc = loop
    /\ todo # << >>
    /\ \E ok \in BOOLEAN :
          /\ ops' = Append(ops, Op(op, Head(todo), ok))
          /\ removed' = IF ok THEN removed \cup {<<kind, Head(todo)>>} ELSE removed
    /\ todo' = Tail(todo)
    /\ UNCHANGED <<pc, exit_status, raised, inventory, stopped>>
    /\ UNCHANGED <<agent_service_name, mainVars, discoverVars>>

\* line 45
ListAllContainers ==
    StartLoop("stop_loop", "list_containers",
              Existing("container", inventory.containers), "remove_loop")

\* lines 46-49
RemoveContainer == TryRemove("remove_loop", "remove_container", "container")

\* line 52
ListImages ==
    StartLoop("remove_loop", "list_images", Existing("image", inventory.images), "image_loop")

\* An image removal whose APIError nobody catches.
RemoveImageUncaught ==
    /\ pc = "image_loop"
    /\ todo # << >>
    /\ \E ok \in BOOLEAN :
          /\ ops' = Append(ops, Op("remove_image", Head(todo), ok))
          /\ removed' = IF ok THEN removed \cup {<<"image", Head(todo)>>} ELSE removed
          /\ IF ok THEN Continue("image_loop") ELSE Fail("cleanup")
    /\ todo' = Tail(todo)
    /\ UNCHANGED <<inventory, stopped>>
    /\ UNCHANGED <<agent_service_name, mainVars, discoverVars>>

\* lines 53-56
RemoveImage == TryRemove("image_loop", "remove_image", "image")

\* line 59
ListVolumes ==
    StartLoop("image_loop", "list_volumes", Existing("volume", inventory.volumes),
              "volume_loop")

\* lines 60-63
RemoveVolume == TryRemove("volume_loop", "remove_volume", "volume")

\* lines 65-69
PruneBuilds ==
    /\ pc = "volume_loop"
    /\ todo = << >>
    /\ \E ok \in BOOLEAN : ops' = Append(ops, Op("prune_builds", "", ok))
    /\ Continue("prune_done")
    /\ UNCHANGED <<inventory, stopped, removed, todo>>
    /\ UNCHANGED <<agent_service_name, mainVars, discoverVars>>

\* line 72
ListNetworks ==
    StartLoop("prune_done", "list_networks", Existing("network", inventory.networks),
              "network_loop")

\* lines 73-77, a network that is not one of the reserved three
RemoveNetwork ==
    /\ pc = "network_loop"
    /\ todo # << >>
    /\ Head(todo) \notin ReservedNetworks
    /\ TryRemove("network_loop", "remove_network", "network")

\* line 73, a reserved network: the loop goes on to the next one
SkipNetwork ==
    /\ pc = "network_loop"
    /\ todo # << >>
    /\ Head(todo) \in ReservedNetworks
    /\ todo' = Tail(todo)
    /\ UNCHANGED <<pc, exit_status, raised, inventory, stopped, removed, ops>>
    /\ UNCHANGED <<agent_service_name, mainVars, discoverVars>>

\* line 79 and the return
CleanupReturn ==
    /\ pc = "network_loop"
    /\ todo = << >>
    /\ Continue("cleanup_done")
    /\ UNCHANGED <<cleanupVars, agent_service_name, mainVars, discoverVars>>

NextCleanup ==
    \/ ListRunningContainers
    \/ StopContainer
    \/ ListAllContainers
    \/ RemoveContainer
    \/ ListImages
    \/ RemoveImage
    \/ ListVolumes
    \/ RemoveVolume
    \/ PruneBuilds
    \/ ListNetworks
    \/ RemoveNetwork
    \/ SkipNetwork
    \/ CleanupReturn

SpecCleanup == InitCleanup /\ [][NextCleanup]_vars

-----------------------------------------------------------------------------
(* collect_agents_and_generate_casc and jenkins/generate_casc.py *)

MaxListed == 2
MaxNetworks == 2

\* range(20), line 129
MaxPolls == 20

\* Names of the containers the daemon may list: project, service, replica.
ContainerNames ==
    { <<"ci", "jenkins", "agent", "1">>, <<"ci", "ssh", "agent", "1">>,
      <<"ci", "jenkins", "controller", "1">> }

\* The agent service names get_service_names can return from ServicePool.
AgentServiceNames == { n \in ServicePool : Contains(AGENT, n) }

Statuses == {"created", "running", "exited"}

\* net_data.get('IPAddress'): None when the key is missing
IpValues == { None, EmptyStr, <<"10.0.0.2">>, <<"10.0.0.3">> }

\* attrs['NetworkSettings']['Networks'].values(), in iteration order
NetworkSettings == UNION { [1..k -> IpValues] : k \in 0..MaxNetworks }

InitDiscover ==
    /\ pc = "collect"
    /\ exit_status = "running"
    /\ raised = "none"
    /\ agent_service_name \in AgentServiceNames
    /\ IdleMain
    /\ IdleCleanup
    /\ all_containers \in DistinctSeqs(ContainerNames, MaxListed)
    /\ agent_containers = << >>
    /\ idx = 0
    /\ attempt = 0
    /\ polls = 0
    /\ sleeps = 0
    /\ status = "created"
    /\ attrs = << >>
    /\ agent_names = << >>
    /\ agent_ips = << >>
    /\ argv = << >>
    /\ casc_agents = << >>
    /\ casc_reported = -1

IsAgentContainer(name) == Contains(agent_service_name, name)

\* The loop of lines 138-141 from network i on, ip being the local variable.
RECURSIVE IpLoopLast(_, _, _)
IpLoopLast(nets, i, ip) ==
    IF i > Len(nets) THEN ip
    ELSE IpLoopLast(nets, i + 1, IF Truthy(nets[i]) \/ ~Truthy(ip) THEN nets[i] ELSE ip)

RECURSIVE IpLoop(_, _, _)
IpLoop(nets, i, ip) ==
    IF i > Len(nets) THEN ip
    ELSE IF Truthy(nets[i]) THEN nets[i]
         ELSE IpLoop(nets, i + 1, nets[i])

\* lines 135-142: the value appended to agent_ips
AgentIp(nets) ==
    LET ip == IF nets # << >> THEN IpLoop(nets, 1, None) ELSE None
    IN  IF Truthy(ip) THEN ip ELSE EmptyStr

\* lines 124-127; the for statement of line 128 then starts on the first agent
\* container, or is skipped when there is none.
ListAgentContainers ==
    /\ pc = "collect"
    /\ \E ok \in BOOLEAN :
          IF ok
          THEN LET found == SelectSeq(all_containers, IsAgentContainer)
               IN  /\ agent_containers' = found
                   /\ idx' = IF found = << >> THEN 0 ELSE 1
                   /\ Continue(IF found = << >> THEN "run_renderer" ELSE "poll")
          ELSE /\ Fail("collect_agents_and_generate_casc")
               /\ UNCHANGED <<agent_containers, idx>>
    /\ UNCHANGED <<all_containers, attempt, polls, sleeps, status, attrs, agent_names,
                   agent_ips, argv, casc_agents, casc_reported>>
    /\ UNCHANGED <<agent_service_name, mainVars, cleanupVars>>

\* lines 129-132: one pass of the polling loop up to the test of the status. The
\* daemon answers with any status, or with an error. The network settings that
\* come with the answer are read at line 135 only, and are chosen there.
Reload ==
    /\ pc = "poll"
    /\ attempt < MaxPolls
    /\ \/ \E st \in Statuses :
             /\ polls' = polls + 1
             /\ status' = st
             /\ Continue(IF st = "running" THEN "append" ELSE "sleep")
       \/ /\ Fail("collect_agents_and_generate_casc")
          /\ UNCHANGED <<polls, status>>
    /\ UNCHANGED <<all_containers, agent_containers, idx, attempt, sleeps, attrs,
                   agent_names, agent_ips, argv, casc_agents, casc_reported>>
    /\ UNCHANGED <<agent_service_name, mainVars, cleanupVars>>

\* A loop that does not sleep after its last pass.
SleepBetweenPolls ==
    /\ pc = "sleep"
    /\ sleeps' = IF attempt + 1 = MaxPolls THEN sleeps ELSE sleeps + 1
    /\ attempt' = attempt + 1
    /\ Continue(IF attempt + 1 = MaxPolls THEN "append" ELSE "poll")
    /\ UNCHANGED <<all_containers, agent_containers, idx, polls, status, attrs,
                   agent_names, agent_ips, argv, casc_agents, casc_reported>>
    /\ UNCHANGED <<agent_service_name, mainVars, cleanupVars>>

\* line 133, and the step of range(20): the loop ends when it is exhausted.
Sleep ==
    /\ pc = "sleep"
    /\ sleeps' = sleeps + 1
    /\ attempt' = attempt + 1
    /\ Continue(IF attempt + 1 = MaxPolls THEN "append" ELSE "poll")
    /\ UNCHANGED <<all_containers, agent_containers, idx, polls, status, attrs,
                   agent_names, agent_ips, argv, casc_agents, casc_reported>>
    /\ UNCHANGED <<agent_service_name, mainVars, cleanupVars>>

\* lines 134-142, and the step of the for statement of line 128. The networks
\* read at line 135 are those of the container's last reload(): any settings.
AppendRecord ==
    /\ pc = "append"
    /\ agent_names' = Append(agent_names, agent_containers[idx])
    /\ \E nets \in NetworkSettings :
          /\ attrs' = nets
          /\ agent_ips' = Append(agent_ips, AgentIp(nets))
    /\ IF idx < Len(agent_containers)
       THEN /\ idx' = idx + 1
            /\ attempt' = 0
            /\ polls' = 0
            /\ sleeps' = 0
            /\ Continue("poll")
       ELSE /\ UNCHANGED <<idx, attempt, polls, sleeps>>
            /\ Continue("run_renderer")
    /\ UNCHANGED <<all_containers, agent_containers, status, argv, casc_agents,
                   casc_reported>>
    /\ UNCHANGED <<agent_service_name, mainVars, cleanupVars>>

\* lines 144-150: the command line of the renderer sub-process
RunRenderer ==
    /\ pc = "run_renderer"
    /\ argv' = agent_names \o agent_ips
    /\ Continue("generate_casc")
    /\ UNCHANGED <<all_containers, agent_containers, idx, attempt, polls, sleeps, status,
                   attrs, agent_names, agent_ips, casc_agents, casc_reported>>
    /\ UNCHANGED <<agent_service_name, mainVars, cleanupVars>>

\* generate_casc.py, line 6
CascNumAgents(a) == Len(a) \div 2

\* generate_casc.py, line 7
CascAgentNames(a) == SubSeq(a, 1, CascNumAgents(a))

\* A split that starts the second half one argument late.
CascAgentIpsLate(a) == SubSeq(a, CascNumAgents(a) + 2, Len(a))

\* generate_casc.py, line 8
CascAgentIps(a) == SubSeq(a, CascNumAgents(a) + 1, Len(a))

Min(a, b) == IF a <= b THEN a ELSE b

\* zip(agent_names, agent_ips) into dicts, generate_casc.py line 9
CascAgents(a) ==
    [k \in 1..Min(Len(CascAgentNames(a)), Len(CascAgentIps(a))) |->
        [name |-> CascAgentNames(a)[k], ip |-> CascAgentIps(a)[k]]]

\* generate_casc.py as a sub-process run with check=True: the template is rendered
\* with the agents and the count is printed, or (no template, no directory) the
\* process fails and CalledProcessError leaves collect_agents_and_generate_casc.
GenerateCasc ==
    /\ pc = "generate_casc"
    /\ \E ok \in BOOLEAN :
          IF ok
          THEN /\ casc_agents' = CascAgents(argv)
               /\ casc_reported' = CascNumAgents(argv)
               /\ Continue("collected")
          ELSE /\ Fail("collect_agents_and_generate_casc")
               /\ UNCHANGED <<casc_agents, casc_reported>>
    /\ UNCHANGED <<all_containers, agent_containers, idx, attempt, polls, sleeps, status,
                   attrs, agent_names, agent_ips, argv>>
    /\ UNCHANGED <<agent_service_name, mainVars, cleanupVars>>

NextDiscover ==
    \/ ListAgentContainers
    \/ Reload
    \/ Sleep
    \/ AppendRecord
    \/ RunRenderer
    \/ GenerateCasc

SpecDiscover == InitDiscover /\ [][NextDiscover]_vars

-----------------------------------------------------------------------------
(* Properties of main, create_jenkins_system, get_service_names, setup_ssh_key *)

IsPrefix(s, t) == Len(s) <= Len(t) /\ SubSeq(t, 1, Len(s)) = s

Last(s) == s[Len(s)]

\* Every function main and create_jenkins_system call, in the order of the code.
CallOrder ==
    <<"cleanup", "check_uv", "get_service_names", "setup_ssh_key", "setup_jenkins_agents",
      "collect_agents_and_generate_casc", "setup_jenkins_controller",
      "get_jenkins_url_from_env">>

\* CLEANUP, PROVISION_CREDENTIALS, LAUNCH_AGENTS, DISCOVER_AND_RENDER,
\* LAUNCH_CONTROLLER, REPORT_URL.
PipelineOrder ==
    <<"cleanup", "setup_ssh_key", "setup_jenkins_agents",
      "collect_agents_and_generate_casc", "setup_jenkins_controller",
      "get_jenkins_url_from_env">>

IsPipelineStage(f) == f \in Range(PipelineOrder)

Generated(v) ==
    IF v = "JENKINS_SSH_PRIVATE_KEY" THEN keygen_output.private ELSE keygen_output.public

\* C1: in a run with num_agents # 0, the clean flag set and the compose file
\* present, the pipeline stages executed so far are always an initial part of
\* CLEANUP, PROVISION_CREDENTIALS, LAUNCH_AGENTS, DISCOVER_AND_RENDER,
\* LAUNCH_CONTROLLER, REPORT_URL (so in that order, none twice); when no stage has
\* failed and the process has ended, all six have run and the status is 0; the
\* controller is launched only after the discovery-and-render stage has run and
\* returned, with both credential variables set to the generated key material.
C1_StageOrder ==
    LET pipeline == SelectSeq(stages, IsPipelineStage)
    IN  /\ IsPrefix(pipeline, PipelineOrder)
        /\ (   /\ pc = "exited"
               /\ args.num_agents # 0 /\ args.clean /\ args.compose_exists
               /\ raised = "none")
           => (pipeline = PipelineOrder /\ exit_status = 0)
        /\ "setup_jenkins_controller" \in Range(stages)
           => /\ \E i, j \in DOMAIN stages :
                    /\ i < j
                    /\ stages[i] = "collect_agents_and_generate_casc"
                    /\ stages[j] = "setup_jenkins_controller"
              /\ raised # "collect_agents_and_generate_casc"
              /\ DOMAIN environ = {"JENKINS_SSH_PRIVATE_KEY", "JENKINS_AGENT_SSH_PUBKEY"}
              /\ \A v \in DOMAIN environ : environ[v] = Generated(v)

C1_Witness ==
    /\ pc = "exited" /\ exit_status = 0 /\ raised = "none"
    /\ args.num_agents = 2 /\ args.clean /\ args.compose_exists
    /\ stages = CallOrder

IsAgentRule(s) == Contains(AGENT, s)
IsControllerRule(s) == s = JENKINS \/ Contains(CONTROLLER, s)

Returned(f) == f \in Range(stages) /\ raised # f /\ pc # f

\* Indices of the declared names each rule of get_service_names accepts.
AgentMatches == { i \in DOMAIN services : IsAgentRule(services[i]) }
ControllerMatches == { i \in DOMAIN services : IsControllerRule(services[i]) }

\* name is the declared name at the last (first) index of S.
IsLastOf(name, S) == \E i \in S : services[i] = name /\ \A j \in S : j <= i
IsFirstOf(name, S) == \E i \in S : services[i] = name /\ \A j \in S : j >= i

\* C2 as stated: get_service_names returns the FIRST declared name containing
\* "agent" and the FIRST declared name that is "jenkins" or contains "controller".
C2_FirstMatch ==
    Returned("get_service_names")
    => /\ IsFirstOf(agent_service_name, AgentMatches)
       /\ IsFirstOf(controller_service_name, ControllerMatches)

\* C2 amended: get_service_names returns the LAST declared name containing "agent"
\* and the LAST declared name that is "jenkins" or contains "controller", also when
\* several names match a rule or one name matches both; it returns exactly when
\* each rule has a match, and ends the process with status 1 otherwise.
C2_LastMatch ==
    /\ Returned("get_service_names")
       => /\ IsLastOf(agent_service_name, AgentMatches)
          /\ IsLastOf(controller_service_name, ControllerMatches)
    /\ raised = "get_service_names"
       => /\ exit_status = 1
          /\ AgentMatches = {} \/ ControllerMatches = {}

\* Two declared names contain "agent", and the one returned matches both rules.
C2_Witness ==
    /\ Returned("get_service_names")
    /\ Cardinality(AgentMatches) >= 2
    /\ agent_service_name = controller_service_name

\* C3: with num_agents = 0, whatever the clean flag and the compose file, no
\* function of the pipeline is ever called (no cleanup, no key generation, no
\* launch, no discovery, no render), nothing is set in the environment, and the
\* process ends with status 0.
C3_ZeroAgents ==
    args.num_agents = 0
    => /\ stages = << >>
       /\ environ = NoEnv
       /\ ~tmp_key_dir
       /\ pc \in {"main", "exited"}
       /\ pc = "exited" => exit_status = 0

C3_Witness ==
    /\ args.num_agents = 0 /\ args.clean /\ ~args.compose_exists
    /\ pc = "exited" /\ exit_status = 0

\* C4 as stated: with the clean flag set, num_agents # 0 and no compose file, the
\* process ends with status 1 and no stage at all has been executed.
C4_NoStageRun ==
    (pc = "exited" /\ args.clean /\ args.num_agents # 0 /\ ~args.compose_exists)
    => (exit_status = 1 /\ stages = << >>)

\* C4 amended: with the clean flag set, num_agents # 0 and no compose file, the
\* process ends with status 1 after CLEANUP, and only CLEANUP, has been executed.
C4_CleanupThenExit ==
    (pc = "exited" /\ args.clean /\ args.num_agents # 0 /\ ~args.compose_exists)
    => (exit_status = 1 /\ stages = <<"cleanup">>)

C4_Witness ==
    /\ pc = "exited" /\ args.clean /\ args.num_agents = 1 /\ ~args.compose_exists
    /\ raised = "main" /\ stages = <<"cleanup">>

\* C6: a failure in a stage (names not resolvable, key generation or key reading,
\* a command of a launch or of the renderer exiting non-zero) ends the process
\* with status 1 with the failed stage as the last one called, the only step in
\* between being the removal of the key directory; the calls made are always an
\* initial part of the fixed order, so none is made twice and none is undone.
C6_FailFast ==
    /\ IsPrefix(stages, CallOrder)
    /\ raised # "none"
       => /\ pc = "exited" \/ (pc = "ssh_exit" /\ raised = "setup_ssh_key")
          /\ Last(stages) = (IF raised = "main" THEN "cleanup" ELSE raised)
    /\ (pc = "exited" /\ raised # "none") => exit_status = 1
    /\ (pc = "exited" /\ raised = "none")
       => (stages = << >> \/ stages = CallOrder) /\ exit_status = 0
    /\ (pc # "get_service_names" /\ "get_service_names" \in Range(stages)
          /\ (agent_service_name = None \/ controller_service_name = None))
       => raised = "get_service_names"

C6_Witness ==
    /\ pc = "exited" /\ exit_status = 1
    /\ raised = "collect_agents_and_generate_casc"
    /\ Len(stages) = 6

WithBlock == {"ssh_keygen", "ssh_read_private", "ssh_read_public", "ssh_exit"}

\* C9: the temporary directory exists only while control is inside the with
\* block of setup_ssh_key, so it is gone on every way out: a normal return, a
\* failed ssh-keygen, a failed read of either key file; at the end of the block
\* on the normal path the two strings are the contents of the two key files, and
\* after the return they are still that content, the files being gone.
C9_TmpDirScoped ==
    /\ tmp_key_dir <=> pc \in WithBlock
    /\ ~tmp_key_dir => key_files = NoFiles
    /\ (pc = "ssh_exit" /\ raised = "none")
       => /\ jenkins_ssh_private_key = key_files["id_ed25519"]
          /\ jenkins_agent_ssh_pubkey = key_files["id_ed25519.pub"]
    /\ (Returned("setup_ssh_key") /\ pc \notin WithBlock)
       => /\ jenkins_ssh_private_key = keygen_output.private
          /\ jenkins_agent_ssh_pubkey = keygen_output.public

\* The read of the public key failed after the private key had been read.
C9_Witness ==
    /\ pc = "exited" /\ raised = "setup_ssh_key"
    /\ jenkins_ssh_private_key = keygen_output.private
    /\ jenkins_agent_ssh_pubkey = Unbound
    /\ ~tmp_key_dir

-----------------------------------------------------------------------------
(* Properties of cleanup *)

Attempted(op, target) == \E i \in DOMAIN ops : ops[i].op = op /\ ops[i].target = target

ListOps == {"list_running", "list_containers", "list_images", "list_volumes", "list_networks"}

\* Position of a Docker call in the order containers (stop, then remove), images,
\* volumes, build cache, networks.
Category(op) ==
    CASE op \in {"list_running", "stop"} -> 1
      [] op \in {"list_containers", "remove_container"} -> 2
      [] op \in {"list_images", "remove_image"} -> 3
      [] op \in {"list_volumes", "remove_volume"} -> 4
      [] op = "prune_builds" -> 5
      [] op \in {"list_networks", "remove_network"} -> 6

\* C5: no failure of a stop, a remove or the prune leaves cleanup (only the failure
\* of a call that fetches a list does); the calls are made in the order containers
\* (stop, then remove), images, volumes, build cache, networks; no resource is the
\* target of the same call twice and bridge, host and none are never the target of
\* a remove; and when cleanup returns, whichever calls failed, every running
\* container was the target of a stop, every container, image, volume and
\* non-reserved network the target of a remove, and the build cache was pruned
\* (each of them once, no call being made twice).
C5_BestEffort ==
    /\ raised # "none" => (Last(ops).op \in ListOps /\ ~Last(ops).ok)
    /\ \A i \in 1..(Len(ops) - 1) : Category(ops[i].op) <= Category(ops[i + 1].op)
    /\ Cardinality({ <<ops[i].op, ops[i].target>> : i \in DOMAIN ops }) = Len(ops)
    /\ \A i \in DOMAIN ops :
          ops[i].op = "remove_network" => ops[i].target \notin ReservedNetworks
    /\ pc = "cleanup_done"
       => /\ raised = "none"
          /\ \A c \in Range(inventory.containers) :
                /\ Attempted("stop", c) <=> c \in inventory.running
                /\ Attempted("remove_container", c)
          /\ \A x \in Range(inventory.images) : Attempted("remove_image", x)
          /\ \A x \in Range(inventory.volumes) : Attempted("remove_volume", x)
          /\ Attempted("prune_builds", "")
          /\ \A n \in Range(inventory.networks) :
                Attempted("remove_network", n) <=> n \notin ReservedNetworks

\* cleanup has returned although the stop of one container, the removal of an
\* image and the prune failed; a second container was removed after the first
\* failure, and a network after all of them.
C5_Witness ==
    /\ pc = "cleanup_done"
    /\ Len(inventory.containers) = 2
    /\ \E i, j, k, l, m \in DOMAIN ops :
          /\ i < j /\ j < k /\ k < l /\ l < m
          /\ ops[i].op = "stop" /\ ~ops[i].ok
          /\ ops[j].op = "remove_container" /\ ops[j].ok
          /\ ops[k].op = "remove_image" /\ ~ops[k].ok
          /\ ops[l].op = "prune_builds" /\ ~ops[l].ok
          /\ ops[m].op = "remove_network" /\ ops[m].ok

-----------------------------------------------------------------------------
(* Properties of collect_agents_and_generate_casc and generate_casc.py *)

Polling == pc \in {"poll", "sleep", "append"}

\* An upper bound of the steps collect_agents_and_generate_casc still makes.
StepsLeft ==
    LET perContainer == 2 * MaxPolls + 1
        after == (Len(agent_containers) - idx) * perContainer + 2
    IN  CASE pc = "collect" -> Len(all_containers) * perContainer + 3
          [] pc = "poll" -> 2 * (MaxPolls - attempt) + 1 + after
          [] pc = "sleep" -> 2 * (MaxPolls - attempt) + after
          [] pc = "append" -> 1 + after
          [] pc = "run_renderer" -> 2
          [] pc = "generate_casc" -> 1
          [] OTHER -> 0

\* What holds of the polling of one container whatever the number of delays.
PollingShape ==
    /\ Polling
       => /\ idx \in 1..Len(agent_containers)
          /\ Len(agent_names) = idx - 1
          /\ polls <= MaxPolls
          /\ raised = "none"
    /\ pc = "poll" => (polls = attempt /\ attempt < MaxPolls /\ (polls > 0 => status # "running"))
    /\ pc = "sleep" => (polls = attempt + 1 /\ status # "running")
    /\ pc = "append"
       => /\ polls >= 1
          /\ status = "running" => sleeps = polls - 1
          /\ status # "running" => polls = MaxPolls
    /\ pc \in {"run_renderer", "generate_casc", "collected"}
       => Len(agent_names) = Len(agent_containers)

\* C7 as stated, the count of the delays: a delay only between two polls, so at
\* most 19 for a container and none after the poll that ends the loop.
C7_DelaysBetweenPolls ==
    Polling => (sleeps <= MaxPolls - 1 /\ (pc = "append" => sleeps = polls - 1))

\* C7 amended: each agent container is polled at least once and at most 20 times,
\* one after the other, and no more once a poll has seen "running"; a delay follows
\* every poll that did not see "running", the 20th included, so there are at most
\* 20 delays for a container and none after a poll that saw "running"; a
\* container never seen running fails nothing and gets its record; every step
\* lowers a bound of the steps left, so the polling always ends.
C7_BoundedPolling ==
    /\ [](/\ PollingShape
          /\ Polling => sleeps <= MaxPolls
          /\ pc = "poll" => sleeps = polls
          /\ pc = "sleep" => sleeps = polls - 1
          /\ (pc = "append" /\ status # "running") => sleeps = MaxPolls)
    /\ [][StepsLeft' < StepsLeft]_vars

\* The second of two agent containers has been polled 20 times without ever being
\* seen running, the record of the first having been appended.
C7_Witness ==
    /\ pc = "append" /\ idx = 2
    /\ polls = MaxPolls /\ sleeps = MaxPolls /\ status = "exited"
    /\ Len(agent_names) = 1

\* C8: when the renderer has run on the arguments names followed by ips, it has
\* built as many records as the Discoverer found agents, the k-th being
\* (names[k], ips[k]), empty ips included, and it reports that number.
C8_RoundTrip ==
    pc = "collected"
    => /\ Len(casc_agents) = Len(agent_names)
       /\ \A k \in DOMAIN agent_names :
             casc_agents[k] = [name |-> agent_names[k], ip |-> agent_ips[k]]
       /\ casc_reported = Len(agent_names)

\* Two agents, the first with an empty ip.
C8_Witness ==
    /\ pc = "collected"
    /\ Len(agent_names) = 2
    /\ agent_ips[1] = EmptyStr /\ agent_ips[2] = <<"10.0.0.2">>
    /\ casc_agents[1].ip = EmptyStr

\* The first address of nets that is neither missing nor empty, '' if none is.
FirstNonEmpty(nets) ==
    IF \E i \in DOMAIN nets : Truthy(nets[i])
    THEN nets[CHOOSE i \in DOMAIN nets :
                 Truthy(nets[i]) /\ \A j \in DOMAIN nets : j < i => ~Truthy(nets[j])]
    ELSE EmptyStr

Position(seq, x) == CHOOSE i \in DOMAIN seq : seq[i] = x

\* C10: the name list and the ip list always have the same length; the records
\* are those of the agent containers polled so far, in enumeration order; at the
\* end there is one record for each listed container whose name contains the agent
\* service name and for no other; no ip is None; and the ip of the record appended
\* last is the first non-empty address of the networks read for it, '' when the
\* container has no network or none with an address.
C10_Records ==
    /\ Len(agent_names) = Len(agent_ips)
    /\ IsPrefix(agent_names, agent_containers)
    /\ \A k \in DOMAIN agent_ips : agent_ips[k] # None
    /\ pc \in {"run_renderer", "generate_casc", "collected"}
       => /\ \A c \in Range(all_containers) :
                Cardinality({ k \in DOMAIN agent_names : agent_names[k] = c })
                   = (IF Contains(agent_service_name, c) THEN 1 ELSE 0)
          /\ \A i, j \in DOMAIN agent_names :
                i < j => Position(all_containers, agent_names[i])
                            < Position(all_containers, agent_names[j])
    /\ agent_ips # << >> => Last(agent_ips) = FirstNonEmpty(attrs)

\* Two records: one with an address, and one with '' for a container whose only
\* network has no IPAddress key.
C10_Witness ==
    /\ pc = "run_renderer"
    /\ Len(agent_ips) = 2
    /\ agent_ips[1] = <<"10.0.0.3">>
    /\ agent_ips[2] = EmptyStr
    /\ attrs = <<None>>

=============================================================================
